---- MODULE Spec2Model ----
(***************************************************************************)
(* A model of src/lib/Utils.js (at-utils): the dependency aggregator      *)
(* Utils.getAppDependencies with processDeps, the release selector         *)
(* Utils.getReleases with Utils.githubRequest, the tree scanners           *)
(* getConfigSchemaPathsRecursive and getAdaptDepsRecursive, and the        *)
(* operations Utils.getSchemas, Utils.registerSuperUser with               *)
(* Utils.internalApiRequest, Utils.startApp, Utils.updateRepo and          *)
(* Utils.checkPrerequisites.  Each operation has its own specification,    *)
(* in which the variables of the other operations rest.                    *)
(*                                                                         *)
(* JavaScript values are modelled as follows.                              *)
(*  - A string is a TLA+ string; Codes gives its UTF-16 code units, which  *)
(*    is what Array.prototype.sort() without a comparator orders by.       *)
(*  - An object is the sequence of its own properties in insertion order,  *)
(*    each [k |-> key, v |-> value] (no key of the model is integer-like). *)
(*  - A value of deps.adapt/all/dev is tagged: Str(s) is the string s,     *)
(*    Arr(xs) the array xs.                                                *)
(***************************************************************************)
EXTENDS Integers, Sequences, FiniteSets, TLC

VARIABLES
    \* ---- Utils.getAppDependencies
    depPc,      \* "reading" | "returned" | "failed"
    pending,    \* number of per-plugin callbacks whose readFile has not settled
    read,       \* the manifests whose callback has run (the plugins discovered)
    deps,       \* the local `deps` object: [adapt, all, dev]
    \* ---- Utils.getReleases
    relPc,      \* "git" | "releases" | "branches" | "lookups" | "select" | "done" | "failed"
    options,    \* the argument: currentVersion, includeBranches, includePrereleases, includeDrafts
    currentVersionDate, \* {} while undefined, {t} once set to the date t
    releases,   \* the local `releases` array
    lookups,    \* the branches whose commit lookup (line 78) has not settled
    result,     \* the array getReleases returned
    requestFailed, \* some remote request was answered with a failure
    \* ---- getConfigSchemaPathsRecursive, getAdaptDepsRecursive
    scanPc,     \* "setup" | "scanning" | "returned"
    tree,       \* the entries under the root: [path, dir]
    scanner,    \* "schemas" | "plugins": which of the two scanners runs
    readdirs,   \* the directories whose readdir has not completed
    stats,      \* the entries whose stat has not completed
    files,      \* the accumulator `files` (`dirs`) all sub-scans share
    \* ---- getSchemas
    schPc,      \* "loading" | "returned" | "failed"
    schCalls,   \* the callbacks of Promise.all, one per schema path found
    schemas,    \* the object `schemas`: [config, user]
    \* ---- registerSuperUser
    regPc,      \* "probe" | "startApp" | "credentials" | "loop" | "email" |
                \* "passwords" | "request" | "returned" | "thrown"
    regOptions, \* the argument `options`
    email,      \* the local `email` ("" is undefined or empty: falsy)
    password,   \* the local `password` ("" is undefined or empty: falsy)
    passwordInputs, \* the answers to the last password prompt, <<>> before it
    sent,       \* the bodies of the register-super requests sent
    answers,    \* the responses to them
    thrown,     \* the error registerSuperUser rejects with, if any
    \* ---- startApp
    app,        \* the module-level `app`: {} while undefined, else {instance}
    calls,      \* the calls of startApp: [pc, init, ret] each
    onReadyCalls,\* how many times App.instance.onReady was called
    \* ---- updateRepo
    updPc,      \* "fetch" | "reset" | "checkout" | "rm" | "install" | "done" | "failed"
    updOptions, \* the argument `options`: [tag]
    repo,       \* the working copy in options.cwd
    repoBefore, \* the working copy when updateRepo was called
    steps,      \* the steps run so far, in order: [step, ok] each
    \* ---- checkPrerequisites
    prePc,      \* "loading" | "checking" | "returned" | "thrown"
    preOptions, \* the argument `options`: [ignorePrereqs]
    prereqs,    \* Object.entries(prereqs): [name, version] in declaration order
    checks,     \* the outcome of each callback of Promise.allSettled
    preError    \* the error thrown or the message logged: {} or {[kind, failed]}

depVars == <<depPc, pending, read, deps>>
relVars == <<relPc, options, currentVersionDate, releases, lookups, result, requestFailed>>
scanVars == <<scanPc, tree, scanner, readdirs, stats, files>>
schVars == <<schPc, schCalls, schemas>>
regVars == <<regPc, regOptions, email, password, passwordInputs, sent, answers, thrown>>
appVars == <<app, calls, onReadyCalls>>
updVars == <<updPc, updOptions, repo, repoBefore, steps>>
preVars == <<prePc, preOptions, prereqs, checks, preError>>
\* the variables of the other operations, for getAppDependencies and getReleases
restVars == <<scanVars, schVars, regVars, appVars, updVars, preVars>>
vars == <<depVars, relVars, restVars>>
\* the variables of the operations other than the tree scanners
exceptScan == <<depVars, relVars, schVars, regVars, appVars, updVars, preVars>>
\* the variables of the operations other than getSchemas
exceptSchemas == <<depVars, relVars, scanVars, regVars, appVars, updVars, preVars>>
\* the variables of the operations other than registerSuperUser
exceptRegister == <<depVars, relVars, scanVars, schVars, appVars, updVars, preVars>>
\* the variables of the operations other than startApp
exceptApp == <<depVars, relVars, scanVars, schVars, regVars, updVars, preVars>>
\* the variables of the operations other than updateRepo
exceptUpd == <<depVars, relVars, scanVars, schVars, regVars, appVars, preVars>>
\* the variables of the operations other than checkPrerequisites
exceptPre == <<depVars, relVars, scanVars, schVars, regVars, appVars, updVars>>

\* the tree scanners not called
ScanIdle ==
    /\ scanPc = "idle"
    /\ tree = {}
    /\ scanner = "none"
    /\ readdirs = {}
    /\ stats = {}
    /\ files = <<>>

\* getSchemas not called
SchemasIdle ==
    /\ schPc = "idle"
    /\ schCalls = <<>>
    /\ schemas = [config |-> <<>>, user |-> <<>>]

\* registerSuperUser not called
RegisterIdle ==
    /\ regPc = "idle"
    /\ regOptions = [superEmail |-> "", superPassword |-> "", pipePasswd |-> FALSE]
    /\ email = ""
    /\ password = ""
    /\ passwordInputs = <<>>
    /\ sent = <<>>
    /\ answers = <<>>
    /\ thrown = {}

\* startApp never called
AppIdle ==
    /\ app = {}
    /\ calls = <<>>
    /\ onReadyCalls = 0

\* updateRepo not called
UpdateIdle ==
    /\ updPc = "idle"
    /\ updOptions = [tag |-> ""]
    /\ repo = [fetched |-> FALSE, dirty |-> FALSE, head |-> "", nodeModules |-> "absent"]
    /\ repoBefore = repo
    /\ steps = <<>>

\* checkPrerequisites not called
PrereqsIdle ==
    /\ prePc = "idle"
    /\ preOptions = [ignorePrereqs |-> FALSE]
    /\ prereqs = <<>>
    /\ checks = <<>>
    /\ preError = {}

\* none of the other operations called
RestIdle ==
    /\ ScanIdle
    /\ SchemasIdle
    /\ RegisterIdle
    /\ AppIdle
    /\ UpdateIdle
    /\ PrereqsIdle

----------------------------------------------------------------------------
\* Bounds of the model
MaxPlugins == 2     \* plugin directories found by getAdaptDepsRecursive
MaxReleases == 1    \* releases the remote host lists
MaxBranches == 2    \* branches the remote host lists
MaxEntries == 3     \* files and directories under the scanned root
MaxSchemas == 2     \* schema files found by getConfigSchemaPathsRecursive
MaxCalls == 3       \* calls of startApp
MaxPrereqs == 2     \* prerequisites the CLI's package.json declares

----------------------------------------------------------------------------
\* Strings

\* The UTF-16 code units of the strings the model uses.
Codes(s) ==
    CASE s = "adapt-a" -> <<97, 100, 97, 112, 116, 45, 97>>
      [] s = "adapt-b" -> <<97, 100, 97, 112, 116, 45, 98>>
      [] s = "lodash"  -> <<108, 111, 100, 97, 115, 104>>
      [] s = "chalk"   -> <<99, 104, 97, 108, 107>>
      [] s = "eslint"  -> <<101, 115, 108, 105, 110, 116>>
      [] s = "^10.0.0" -> <<94, 49, 48, 46, 48, 46, 48>>
      [] s = "^2.0.0"  -> <<94, 50, 46, 48, 46, 48>>
      [] s = "1.0.0"   -> <<49, 46, 48, 46, 48>>
      [] s = "2.0.0"   -> <<50, 46, 48, 46, 48>>
      [] s = "conf" -> <<99, 111, 110, 102>>
      [] s = "xconf" -> <<120, 99, 111, 110, 102>>
      [] s = "config.schema.json" ->
            <<99, 111, 110, 102, 105, 103, 46, 115, 99, 104, 101, 109, 97, 46, 106, 115, 111, 110>>
      [] s = "adapt-authoring.json" ->
            <<97, 100, 97, 112, 116, 45, 97, 117, 116, 104, 111, 114, 105, 110, 103, 46, 106, 115, 111, 110>>
      [] s = "my-adapt-authoring.json" ->
            <<109, 121, 45, 97, 100, 97, 112, 116, 45, 97, 117, 116, 104, 111, 114, 105, 110, 103, 46, 106,
              115, 111, 110>>
      [] s = "/app/node_modules" ->
            <<47, 97, 112, 112, 47, 110, 111, 100, 101, 95, 109, 111, 100, 117, 108, 101, 115>>
      [] OTHER         -> <<>>

RECURSIVE SeqLess(_, _)
\* a < b for two sequences of code units, compared unit by unit
SeqLess(a, b) ==
    IF b = <<>> THEN FALSE
    ELSE IF a = <<>> THEN TRUE
    ELSE IF Head(a) # Head(b) THEN Head(a) < Head(b)
    ELSE SeqLess(Tail(a), Tail(b))

\* The order of Array.prototype.sort() with no comparator: by code units.
StrLess(a, b) == SeqLess(Codes(a), Codes(b))

RECURSIVE InsertSorted(_, _)
InsertSorted(s, x) ==
    IF s = <<>> THEN <<x>>
    ELSE IF StrLess(x, Head(s)) THEN <<x>> \o s
    ELSE <<Head(s)>> \o InsertSorted(Tail(s), x)

RECURSIVE SortStrings(_)
\* xs.sort(): the strings of xs in ascending code-unit order
SortStrings(xs) ==
    IF xs = <<>> THEN <<>>
    ELSE InsertSorted(SortStrings(Tail(xs)), Head(xs))

Range(s) == {s[i] : i \in 1..Len(s)}

----------------------------------------------------------------------------
\* Objects

Str(s) == [type |-> "string", str |-> s, list |-> <<>>]
Arr(xs) == [type |-> "array", str |-> "", list |-> xs]

ObjKeys(o) == [i \in 1..Len(o) |-> o[i].k]
ObjHas(o, k) == \E i \in 1..Len(o) : o[i].k = k
ObjGet(o, k) == o[CHOOSE i \in 1..Len(o) : o[i].k = k].v
\* o[k] = v: an existing property keeps its place, a new one goes last
ObjSet(o, k, v) ==
    IF ObjHas(o, k)
    THEN [i \in 1..Len(o) |-> IF o[i].k = k THEN [k |-> k, v |-> v] ELSE o[i]]
    ELSE Append(o, [k |-> k, v |-> v])

----------------------------------------------------------------------------
\* Utils.getAppDependencies

\* name and version of the discovered plugins: two directories may carry the
\* same name with different versions
PluginIds == {<<"adapt-a", "1.0.0">>, <<"adapt-a", "2.0.0">>, <<"adapt-b", "1.0.0">>}
DepNames == {"adapt-b", "lodash", "chalk"}
DevDepNames == {"adapt-b", "eslint"}
Specifiers == {"^10.0.0", "^2.0.0"}

\* The `dependencies` (or `devDependencies`) objects a manifest may carry:
\* absent or empty, or one declaration.
Declarations(names) ==
    {<<>>} \cup {<<[k |-> n, v |-> s]>> : n \in names, s \in Specifiers}

\* The package.json files of the plugin directories.
Manifests ==
    {[name |-> id[1], version |-> id[2], dependencies |-> d, devDependencies |-> dd] :
        id \in PluginIds, d \in Declarations(DepNames), dd \in Declarations(DevDepNames)}

\* A mutant of MergeEntry: the array is not sorted after the push.
MergeEntryUnsorted(memo, k, v) ==
    LET old == IF ObjHas(memo, k) THEN ObjGet(memo, k).list ELSE <<>>
        new == IF v \in Range(old) THEN old ELSE Append(old, v)
    IN  ObjSet(memo, k, Arr(new))

\* lines 281-283, for one entry [k, v] of a declared dependency object
MergeEntry(memo, k, v) ==
    LET old == IF ObjHas(memo, k) THEN ObjGet(memo, k).list ELSE <<>>
        new == IF v \in Range(old) THEN old ELSE Append(old, v)
    IN  ObjSet(memo, k, Arr(SortStrings(new)))

RECURSIVE MergeDeps(_, _)
\* lines 279-285 for one of the two pairs [declared, memo]
MergeDeps(memo, declared) ==
    IF declared = <<>> THEN memo
    ELSE MergeDeps(MergeEntry(memo, Head(declared).k, Head(declared).v),
                   Tail(declared))

\* lines 277-285: the callback of one plugin, from its parsed manifest on
MergeManifest(d, m) ==
    [adapt |-> ObjSet(d.adapt, m.name, Str(m.version)),
     all   |-> MergeDeps(d.all, m.dependencies),
     dev   |-> MergeDeps(d.dev, m.devDependencies)]

\* A mutant of Collapse: an array is never replaced by its only element.
CollapseNever(val) == val

\* lines 360-361: v[d], or v[d][0] when v[d].length === 1 (for a string of
\* one character v[d][0] is that string again)
Collapse(val) ==
    IF val.type = "array" /\ Len(val.list) = 1 THEN Str(val.list[1]) ELSE val

\* lines 358-364 for one map v of deps
ProcessMap(v) ==
    LET keys == SortStrings(ObjKeys(v))
    IN  [i \in 1..Len(keys) |-> [k |-> keys[i], v |-> Collapse(ObjGet(v, keys[i]))]]

\* processDeps, lines 356-366
processDeps(d) ==
    [adapt |-> ProcessMap(d.adapt), all |-> ProcessMap(d.all), dev |-> ProcessMap(d.dev)]

\* lines 288-291: every key of o that is a key of adapt is deleted
DeleteAdaptKeys(o, adapt) == SelectSeq(o, LAMBDA e : ~ObjHas(adapt, e.k))

\* A mutant of Finish: the keys of adapt are not deleted from all.
FinishKeepAll(d) == processDeps(d)

\* lines 287-292, what getAppDependencies returns once every callback has run
Finish(d) ==
    LET p == processDeps(d)
    IN  [adapt |-> p.adapt, all |-> DeleteAdaptKeys(p.all, p.adapt), dev |-> p.dev]

EmptyDeps == [adapt |-> <<>>, all |-> <<>>, dev |-> <<>>]

\* getReleases not called
RelIdle ==
    /\ relPc = "idle"
    /\ options = [currentVersion |-> "", includeBranches |-> FALSE,
                  includePrereleases |-> FALSE, includeDrafts |-> FALSE]
    /\ currentVersionDate = {}
    /\ releases = <<>>
    /\ lookups = {}
    /\ result = <<>>
    /\ requestFailed = FALSE

InitDeps ==
    /\ depPc = "reading"
    /\ pending \in 0..MaxPlugins
    /\ read = {}
    /\ deps = EmptyDeps
    /\ RelIdle
    /\ RestIdle

\* One callback of line 276 runs: its manifest was read and parsed.
ReadCompletes ==
    /\ depPc = "reading" /\ pending > 0
    /\ \E m \in Manifests \ read :
          /\ read' = read \cup {m}
          /\ deps' = MergeManifest(deps, m)
    /\ pending' = pending - 1
    /\ UNCHANGED <<depPc, relVars, restVars>>

\* readFile or JSON.parse of line 277 throws: Promise.all rejects and
\* getAppDependencies throws.
ReadFails ==
    /\ depPc = "reading" /\ pending > 0
    /\ depPc' = "failed"
    /\ pending' = pending - 1
    /\ UNCHANGED <<read, deps, relVars, restVars>>

\* Promise.all of line 276 resolves; lines 287-292 run and deps is returned.
Return ==
    /\ depPc = "reading" /\ pending = 0
    /\ deps' = Finish(deps)
    /\ depPc' = "returned"
    /\ UNCHANGED <<pending, read, relVars, restVars>>

NextDeps == ReadCompletes \/ ReadFails \/ Return

SpecDeps == InitDeps /\ [][NextDeps]_vars

----------------------------------------------------------------------------
\* Utils.getReleases

\* getAppDependencies not called
DepsIdle ==
    /\ depPc = "idle"
    /\ pending = 0
    /\ read = {}
    /\ deps = EmptyDeps

\* new Date(s) as days since the epoch, for the timestamps of the model: the
\* ISO strings of the remote host and the output of git log -1 --format=%cd
ParseDate(s) ==
    CASE s = "2024-01-10T00:00:00Z" -> 19732
      [] s = "2024-02-10T00:00:00Z" -> 19763
      [] s = "Wed Jan 10 00:00:00 2024 +0000" -> 19732
      [] s = "Sat Feb 10 00:00:00 2024 +0000" -> 19763

RemoteDates == {"2024-01-10T00:00:00Z", "2024-02-10T00:00:00Z"}
GitLogOutputs == {"Wed Jan 10 00:00:00 2024 +0000", "Sat Feb 10 00:00:00 2024 +0000"}

\* semver.valid(v) as <<major, minor, patch>>, or <<>> for null
SemverValid(v) ==
    CASE v = "3.2.0"  -> <<3, 2, 0>>
      [] v = "3.3.0"  -> <<3, 3, 0>>
      [] v = "v3.3.0" -> <<3, 3, 0>>
      [] OTHER        -> <<>>

\* semver.gt(a, b) for two valid versions
SemverGt(a, b) ==
    LET x == SemverValid(a)
        y == SemverValid(b)
    IN  \/ x[1] > y[1]
        \/ x[1] = y[1] /\ x[2] > y[2]
        \/ x[1] = y[1] /\ x[2] = y[2] /\ x[3] > y[3]

ReleaseTags == {"3.2.0", "v3.3.0"}
BranchNames == {"master", "develop", "3.3.0"}
CurrentVersions == {"", "3.2.0", "3.3.0", "master"}

\* The argument of getReleases.
Options ==
    [currentVersion : CurrentVersions, includeBranches : BOOLEAN,
     includePrereleases : BOOLEAN, includeDrafts : BOOLEAN]

\* An element of the answer to releases?per_page=10 (branch is undefined).
RemoteReleases ==
    [name : {"Release"}, tag_name : ReleaseTags, published_at : RemoteDates,
     draft : BOOLEAN, prerelease : BOOLEAN, branch : {FALSE}]

\* The answers to releases?per_page=10: arrays of at most MaxReleases releases.
ReleaseLists == UNION {[1..n -> RemoteReleases] : n \in 0..MaxReleases}

\* A branch of the remote repository with the author date of its head commit.
RemoteBranches == [name : BranchNames, date : RemoteDates]

\* The answers to branches: at most MaxBranches branches, their names distinct.
BranchSets ==
    {bs \in SUBSET RemoteBranches :
        /\ Cardinality(bs) <= MaxBranches
        /\ \A b1, b2 \in bs : b1.name = b2.name => b1 = b2}

\* What fetch does with a request: it rejects (sent = FALSE), or resolves
\* with a response of this status (the host answers its list and commit
\* endpoints with a body, never with 204).
Responses ==
    {[sent |-> TRUE, status |-> 200], [sent |-> TRUE, status |-> 404],
     [sent |-> FALSE, status |-> 0]}

\* the request failed: in transport, or with a status that is not a success
IsFailure(resp) == ~resp.sent \/ resp.status \notin 200..299

\* A mutant of GithubRequestThrows: only server errors are thrown.
GithubRequestThrowsOn5xx(resp) == ~resp.sent \/ resp.status > 499

\* githubRequest, lines 62-65: fetch rejects, or the status is above 299
GithubRequestThrows(resp) == ~resp.sent \/ resp.status > 299

\* lines 79-84: the candidate pushed for branch b (draft and prerelease are
\* undefined, which the filter reads as false)
BranchCandidate(b) ==
    [name |-> b.name \o " (branch)", tag_name |-> b.name, published_at |-> b.date,
     draft |-> FALSE, prerelease |-> FALSE, branch |-> TRUE]

\* A mutant of Annotate: prerelease takes precedence over draft.
AnnotatePrereleaseFirst(r) ==
    [name |-> r.name \o (IF r.prerelease THEN " (prerelease)"
                         ELSE IF r.draft THEN " (draft)" ELSE ""),
     tag_name |-> r.tag_name, published_at |-> r.published_at,
     draft |-> r.draft, prerelease |-> r.prerelease, branch |-> r.branch,
     date |-> ParseDate(r.published_at)]

\* lines 88-93: Object.assign(r, {name, date})
Annotate(r) ==
    [name |-> r.name \o (IF r.draft THEN " (draft)"
                         ELSE IF r.prerelease THEN " (prerelease)" ELSE ""),
     tag_name |-> r.tag_name, published_at |-> r.published_at,
     draft |-> r.draft, prerelease |-> r.prerelease, branch |-> r.branch,
     date |-> ParseDate(r.published_at)]

\* A mutant of Excluded: drafts are never excluded.
ExcludedKeepsDrafts(r, o) ==
    \/ r.tag_name = o.currentVersion
    \/ r.prerelease /\ ~o.includePrereleases

\* line 95: the candidates the filter rejects first
Excluded(r, o) ==
    \/ r.tag_name = o.currentVersion
    \/ r.prerelease /\ ~o.includePrereleases
    \/ r.draft /\ ~o.includeDrafts

\* A mutant of Newer: a candidate whose version compares is decided by the
\* versions alone.
NewerSemverFirst(r, o, cvd) ==
    \/ o.currentVersion = ""
    \/ IF SemverValid(o.currentVersion) # <<>> /\ SemverValid(r.tag_name) # <<>>
       THEN SemverGt(r.tag_name, o.currentVersion)
       ELSE \E t \in cvd : r.date > t

\* lines 98-101: noCurrent || semverNewer || gitNewer (a comparison with the
\* undefined currentVersionDate is false)
Newer(r, o, cvd) ==
    LET noCurrent == o.currentVersion = ""
        semverNewer == /\ SemverValid(o.currentVersion) # <<>>
                       /\ SemverValid(r.tag_name) # <<>>
                       /\ SemverGt(r.tag_name, o.currentVersion)
        gitNewer == \E t \in cvd : r.date > t
    IN  noCurrent \/ semverNewer \/ gitNewer

\* A mutant of Compare: the comparator of an ascending sort.
CompareAscending(a, b) == IF a.date > b.date THEN 1 ELSE -1

\* line 103: the comparator handed to sort
Compare(a, b) == IF a.date < b.date THEN 1 ELSE -1

\* Array.prototype.sort(comparefn) as the engine runs it on an array shorter
\* than 64 elements: the leading run is found (and reversed when the
\* comparator calls it descending), then the rest is inserted by binary
\* search.  Indices are 0-based as in the engine; a[i + 1] is element i.
RECURSIVE RunEnd(_, _, _)
\* the length of the run that starts at 0, idx being the next element to test
RunEnd(a, idx, descending) ==
    IF idx >= Len(a) THEN idx
    ELSE LET order == Compare(a[idx + 1], a[idx])
         IN  IF descending
             THEN IF order >= 0 THEN idx ELSE RunEnd(a, idx + 1, descending)
             ELSE IF order < 0 THEN idx ELSE RunEnd(a, idx + 1, descending)

Reverse(a) == [i \in 1..Len(a) |-> a[Len(a) + 1 - i]]

\* the array with its leading run made ascending for the comparator
MakeRun(a) ==
    LET descending == Compare(a[2], a[1]) < 0
        n == RunEnd(a, 2, descending)
    IN  [run |-> n,
         arr |-> IF descending THEN Reverse(SubSeq(a, 1, n)) \o SubSeq(a, n + 1, Len(a))
                 ELSE a]

RECURSIVE SearchLeft(_, _, _, _)
\* the binary search of the insertion point of pivot in a[left .. right - 1]
SearchLeft(a, pivot, left, right) ==
    IF left >= right THEN left
    ELSE LET mid == left + ((right - left) \div 2)
         IN  IF Compare(pivot, a[mid + 1]) < 0
             THEN SearchLeft(a, pivot, left, mid)
             ELSE SearchLeft(a, pivot, mid + 1, right)

RECURSIVE BinaryInsertionSort(_, _)
\* elements start .. Len(a) - 1 inserted, one by one, into the sorted prefix
BinaryInsertionSort(a, start) ==
    IF start >= Len(a) THEN a
    ELSE LET pivot == a[start + 1]
             left == SearchLeft(a, pivot, 0, start)
             moved == SubSeq(a, 1, left) \o <<pivot>> \o SubSeq(a, left + 1, start)
                      \o SubSeq(a, start + 2, Len(a))
         IN  BinaryInsertionSort(moved, start + 1)

\* A mutant of Sort: the array is returned as filtered.
SortNothing(a) == a

\* line 103: .sort((a, b) => a.date < b.date ? 1 : -1)
Sort(a) ==
    IF Len(a) < 2 THEN a
    ELSE LET r == MakeRun(a) IN BinaryInsertionSort(r.arr, r.run)

AnnotateAll(rs) == [i \in 1..Len(rs) |-> Annotate(rs[i])]

\* lines 87-103: what getReleases returns, rs being the annotated releases
Select(rs, o, cvd) ==
    Sort(SelectSeq(rs, LAMBDA r : ~Excluded(r, o) /\ Newer(r, o, cvd)))

InitReleases ==
    /\ relPc = "git"
    /\ options \in Options
    /\ currentVersionDate = {}
    /\ releases = <<>>
    /\ lookups = {}
    /\ result = <<>>
    /\ requestFailed = FALSE
    /\ DepsIdle
    /\ RestIdle

\* lines 71-73: git log succeeds and prints a date, or exec rejects and the
\* error is swallowed
GitLog ==
    /\ relPc = "git"
    /\ \/ \E out \in GitLogOutputs : currentVersionDate' = {ParseDate(out)}
       \/ currentVersionDate' = {}
    /\ relPc' = "releases"
    /\ UNCHANGED <<options, releases, lookups, result, requestFailed, depVars, restVars>>

\* line 74: the release list is requested
FetchReleases ==
    /\ relPc = "releases"
    /\ \E resp \in Responses :
          /\ requestFailed' = IsFailure(resp)
          /\ IF GithubRequestThrows(resp)
             THEN /\ relPc' = "failed"
                  /\ UNCHANGED releases
             ELSE /\ \E list \in ReleaseLists : releases' = list
                  /\ relPc' = IF options.includeBranches THEN "branches" ELSE "select"
    /\ UNCHANGED <<options, currentVersionDate, lookups, result, depVars, restVars>>

\* line 77: the branch list is requested; one commit lookup starts per branch
FetchBranches ==
    /\ relPc = "branches"
    /\ \E resp \in Responses :
          /\ requestFailed' = IsFailure(resp)
          /\ IF GithubRequestThrows(resp)
             THEN /\ relPc' = "failed"
                  /\ UNCHANGED lookups
             ELSE /\ \E bs \in BranchSets : lookups' = bs
                  /\ relPc' = "lookups"
    /\ UNCHANGED <<options, currentVersionDate, releases, result, depVars, restVars>>

\* lines 78-84: the commit lookup of one branch settles; on success the
\* callback pushes its candidate, on failure Promise.all rejects and
\* getReleases throws
LookupSettles ==
    /\ relPc = "lookups"
    /\ \E b \in lookups, resp \in Responses :
          /\ requestFailed' = IsFailure(resp)
          /\ lookups' = lookups \ {b}
          /\ IF GithubRequestThrows(resp)
             THEN /\ relPc' = "failed"
                  /\ UNCHANGED releases
             ELSE /\ releases' = Append(releases, BranchCandidate(b))
                  /\ UNCHANGED relPc
    /\ UNCHANGED <<options, currentVersionDate, result, depVars, restVars>>

\* line 77: Promise.all resolves once every lookup has resolved
LookupsJoin ==
    /\ relPc = "lookups" /\ lookups = {}
    /\ relPc' = "select"
    /\ UNCHANGED <<options, currentVersionDate, releases, lookups, result, requestFailed, depVars, restVars>>

\* lines 87-103: the releases are annotated in place, filtered and sorted
SelectReleases ==
    /\ relPc = "select"
    /\ releases' = AnnotateAll(releases)
    /\ result' = Select(AnnotateAll(releases), options, currentVersionDate)
    /\ relPc' = "done"
    /\ UNCHANGED <<options, currentVersionDate, lookups, requestFailed, depVars, restVars>>

NextReleases ==
    \/ GitLog
    \/ FetchReleases
    \/ FetchBranches
    \/ LookupSettles
    \/ LookupsJoin
    \/ SelectReleases

SpecReleases == InitReleases /\ [][NextReleases]_vars

----------------------------------------------------------------------------
\* getConfigSchemaPathsRecursive and getAdaptDepsRecursive

\* The names an entry of the tree can have.
EntryNames == {"conf", "xconf", "config.schema.json", "adapt-authoring.json",
               "my-adapt-authoring.json"}

\* the directory the scan starts in: path.resolve(rootDir, 'node_modules')
RootDir == "/app/node_modules"

\* path.sep
Sep == 47

RECURSIVE JoinCodes(_)
\* the code units of the names of a path, each after a separator
JoinCodes(p) ==
    IF p = <<>> THEN <<>>
    ELSE <<Sep>> \o Codes(Head(p)) \o JoinCodes(Tail(p))

\* path.resolve(dir, c), over all the levels down to the entry at p
FullPath(p) == Codes(RootDir) \o JoinCodes(p)

\* String.prototype.endsWith on code units
EndsWith(a, suffix) ==
    /\ Len(suffix) <= Len(a)
    /\ SubSeq(a, Len(a) - Len(suffix) + 1, Len(a)) = suffix

\* the suffix each scanner looks for
Suffix(s) ==
    IF s = "schemas"
    THEN Codes("conf") \o <<Sep>> \o Codes("config.schema.json")
    ELSE Codes("adapt-authoring.json")

\* path.dirname of the entry at p
Dirname(p) == SubSeq(p, 1, Len(p) - 1)

\* what a scanner pushes for a matching file: the schema scanner the file's
\* path, the plugin scanner the directory the file is in
Pushed(s, p) == IF s = "schemas" THEN p ELSE Dirname(p)

\* the directories an entry can be added to
Directories == {<<>>} \cup {e.path : e \in {x \in tree : x.dir}}

\* the entries fs.readdir(dir) lists
Contents(dir) == {e \in tree : Len(e.path) > 0 /\ Dirname(e.path) = dir}

\* A scan that waits for the stats of the direct children only, not for the
\* sub-scans of the directories among them.
ChildrenJoined == <<>> \notin readdirs /\ \A p \in stats : Len(p) # 1

\* Promise.all over the children, each directory's callback returning its
\* sub-scan: the top scan settles when nothing under it is outstanding
Joined == readdirs = {} /\ stats = {}

InitScan ==
    /\ scanPc = "setup"
    /\ tree = {}
    /\ scanner = "none"
    /\ readdirs = {}
    /\ stats = {}
    /\ files = <<>>
    /\ DepsIdle
    /\ RelIdle
    /\ SchemasIdle
    /\ RegisterIdle
    /\ AppIdle
    /\ UpdateIdle
    /\ PrereqsIdle

\* the file system before the scan: one more file or directory
AddEntry ==
    /\ scanPc = "setup"
    /\ Cardinality(tree) < MaxEntries
    /\ \E parent \in Directories, name \in EntryNames, d \in BOOLEAN :
         /\ \A e \in tree : e.path # Append(parent, name)
         /\ tree' = tree \cup {[path |-> Append(parent, name), dir |-> d]}
    /\ UNCHANGED <<scanPc, scanner, readdirs, stats, files, exceptScan>>

\* one of the two scanners is called on the root with an empty accumulator
StartScan ==
    /\ scanPc = "setup"
    /\ \E s \in {"schemas", "plugins"} : scanner' = s
    /\ scanPc' = "scanning"
    /\ readdirs' = {<<>>}
    /\ UNCHANGED <<tree, stats, files, exceptScan>>

\* fs.readdir(dir) resolves: one callback per entry, each starting with stat
ReaddirCompletes ==
    /\ scanPc = "scanning"
    /\ \E dir \in readdirs :
         /\ readdirs' = readdirs \ {dir}
         /\ stats' = stats \cup {e.path : e \in Contents(dir)}
    /\ UNCHANGED <<scanPc, tree, scanner, files, exceptScan>>

\* fs.stat(fullPath) resolves: a directory is scanned in turn, a file whose
\* path ends with the suffix is pushed
StatCompletes ==
    /\ scanPc = "scanning"
    /\ \E e \in tree :
         /\ e.path \in stats
         /\ stats' = stats \ {e.path}
         /\ readdirs' = IF e.dir THEN readdirs \cup {e.path} ELSE readdirs
         /\ files' = IF ~e.dir /\ EndsWith(FullPath(e.path), Suffix(scanner))
                     THEN Append(files, Pushed(scanner, e.path))
                     ELSE files
    /\ UNCHANGED <<scanPc, tree, scanner, exceptScan>>

\* the top scan returns the accumulator
ScanReturns ==
    /\ scanPc = "scanning"
    /\ Joined
    /\ scanPc' = "returned"
    /\ UNCHANGED <<tree, scanner, readdirs, stats, files, exceptScan>>

NextScan ==
    \/ AddEntry
    \/ StartScan
    \/ ReaddirCompletes
    \/ StatCompletes
    \/ ScanReturns

SpecScan == InitScan /\ [][NextScan]_vars

----------------------------------------------------------------------------
\* getSchemas

\* what loadPackage returns for the package of a schema file
Packages ==
    {[name |-> id[1], version |-> id[2], description |-> "An Adapt plugin"] :
        id \in PluginIds}

\* what loadJson returns for a schema file (the parsed documents, by title)
SchemaDocs == {"Config A", "Config B"}

\* A result without the synthetic entry.
NoUserSchema == <<>>

\* the object assigned to schemas.user
UserSchema ==
    <<[k |-> "properties",
       v |-> <<[k |-> "superUser",
                v |-> [title |-> "superuser",
                       type |-> "object",
                       properties |->
                           <<[k |-> "email",
                              v |-> [description |-> "Email address for the user",
                                     type |-> "string", format |-> "email"]],
                             [k |-> "password",
                              v |-> [description |-> "Password for the user",
                                     type |-> "string", format |-> "password"]],
                             [k |-> "confirmPassword",
                              v |-> [description |-> "Re-enter password",
                                     type |-> "string", format |-> "password"]]>>,
                       required |-> <<"email", "password", "confirmPassword">>]]>>]>>

\* schemas.config[name] = { name, description, version, schema }
ConfigEntry(pkg, schema) ==
    [name |-> pkg.name, description |-> pkg.description,
     version |-> pkg.version, schema |-> schema]

\* the callbacks that have not settled
Unsettled == {i \in 1..Len(schCalls) : schCalls[i].phase \in {"package", "json"}}

\* A schema file that cannot be loaded is left out and the rest proceeds.
LoadFailureSkipped(i) ==
    /\ schCalls' = [schCalls EXCEPT ![i].phase = "failed"]
    /\ UNCHANGED <<schPc, schemas>>

\* loadPackage or loadJson throws in callback i: the callback rejects, so
\* Promise.all rejects and getSchemas throws
LoadFailure(i) ==
    /\ schCalls' = [schCalls EXCEPT ![i].phase = "failed"]
    /\ schPc' = "failed"
    /\ UNCHANGED schemas

InitSchemas ==
    /\ schPc = "scanning"
    /\ schCalls = <<>>
    /\ schemas = [config |-> <<>>, user |-> <<>>]
    /\ DepsIdle
    /\ RelIdle
    /\ ScanIdle
    /\ RegisterIdle
    /\ AppIdle
    /\ UpdateIdle
    /\ PrereqsIdle

\* getConfigSchemaPathsRecursive resolves: one callback per path found
PathsFound ==
    /\ schPc = "scanning"
    /\ \E n \in 0..MaxSchemas :
         schCalls' = [i \in 1..n |-> [phase |-> "package", pkg |-> {}]]
    /\ schPc' = "loading"
    /\ UNCHANGED <<schemas, exceptSchemas>>

\* loadPackage resolves in a callback, which goes on to loadJson
PackageLoads ==
    /\ schPc = "loading"
    /\ \E i \in 1..Len(schCalls), p \in Packages :
         /\ schCalls[i].phase = "package"
         /\ schCalls' = [schCalls EXCEPT ![i] = [phase |-> "json", pkg |-> {p}]]
    /\ UNCHANGED <<schPc, schemas, exceptSchemas>>

\* loadPackage throws in a callback
PackageFails ==
    /\ schPc = "loading"
    /\ \E i \in 1..Len(schCalls) :
         /\ schCalls[i].phase = "package"
         /\ LoadFailure(i)
    /\ UNCHANGED exceptSchemas

\* loadJson resolves in a callback, which sets its entry of schemas.config
JsonLoads ==
    /\ schPc = "loading"
    /\ \E i \in 1..Len(schCalls), doc \in SchemaDocs :
         /\ schCalls[i].phase = "json"
         /\ schCalls' = [schCalls EXCEPT ![i].phase = "done"]
         /\ \E p \in schCalls[i].pkg :
              schemas' = [schemas EXCEPT
                            !.config = ObjSet(@, p.name, ConfigEntry(p, doc))]
    /\ UNCHANGED <<schPc, exceptSchemas>>

\* loadJson throws in a callback
JsonFails ==
    /\ schPc = "loading"
    /\ \E i \in 1..Len(schCalls) :
         /\ schCalls[i].phase = "json"
         /\ LoadFailure(i)
    /\ UNCHANGED exceptSchemas

\* Promise.all resolves: schemas.user is set and schemas is returned
SchemasReturn ==
    /\ schPc = "loading"
    /\ Unsettled = {}
    /\ schemas' = [schemas EXCEPT !.user = UserSchema]
    /\ schPc' = "returned"
    /\ UNCHANGED <<schCalls, exceptSchemas>>

NextSchemas ==
    \/ PathsFound
    \/ PackageLoads
    \/ PackageFails
    \/ JsonLoads
    \/ JsonFails
    \/ SchemasReturn

SpecSchemas == InitSchemas /\ [][NextSchemas]_vars

\* getSchemas or getAppDependencies, one call of either
SpecLoads == (InitDeps \/ InitSchemas) /\ [][NextDeps \/ NextSchemas]_vars

----------------------------------------------------------------------------
\* registerSuperUser with internalApiRequest

EmailInputs == {"", "root@example.com"}
PasswordInputs == {"", "secret", "other"}
PipedLines == {"", "piped"}

RegOptions ==
    [superEmail : {"", "root@example.com"}, superPassword : {"", "secret"},
     pipePasswd : BOOLEAN]

\* What a request of internalApiRequest meets: fetch rejects (status 0, the
\* code being the one of the rejection), or the server answers with a status
\* and, above 299, a body carrying a code.
ApiResponses ==
    {[status |-> 0, code |-> "ECONNREFUSED"],
     [status |-> 204, code |-> ""],
     [status |-> 200, code |-> ""],
     [status |-> 400, code |-> "VALIDATION_FAILED"],
     [status |-> 500, code |-> "SERVER_ERROR"]}

\* internalApiRequest throws: fetch rejected, or the status is above 299
ApiThrows(resp) == resp.status = 0 \/ resp.status > 299

\* the error internalApiRequest throws: message, code and statusCode are
\* set, data is not
ApiError(resp) == [name |-> "Error", code |-> resp.code, hasData |-> FALSE]

\* reading e.data.errors of an error without data
TypeError == [name |-> "TypeError", code |-> "", hasData |-> FALSE]

InitRegister ==
    /\ regPc = "probe"
    /\ regOptions \in RegOptions
    /\ email = ""
    /\ password = ""
    /\ passwordInputs = <<>>
    /\ sent = <<>>
    /\ answers = <<>>
    /\ thrown = {}
    /\ DepsIdle
    /\ RelIdle
    /\ ScanIdle
    /\ SchemasIdle
    /\ AppIdle
    /\ UpdateIdle
    /\ PrereqsIdle

\* lines 198-203: the GET probe settles; ECONNREFUSED starts the app, any
\* other error is rethrown
ProbeSettles ==
    /\ regPc = "probe"
    /\ \E resp \in ApiResponses :
         IF ~ApiThrows(resp)
         THEN regPc' = "credentials" /\ UNCHANGED thrown
         ELSE IF ApiError(resp).code # "ECONNREFUSED"
         THEN regPc' = "thrown" /\ thrown' = {ApiError(resp)}
         ELSE regPc' = "startApp" /\ UNCHANGED thrown
    /\ UNCHANGED <<regOptions, email, password, passwordInputs, sent, answers, exceptRegister>>

\* line 202: startApp settles; it rejects when importCore fails, else it
\* resolves, with the instance or with undefined
AppStarted ==
    /\ regPc = "startApp"
    /\ \E outcome \in {"instance", "undefined", "rejected"} :
         IF outcome = "rejected"
         THEN /\ regPc' = "thrown"
              /\ thrown' = {[name |-> "Error", code |-> "ERR_MODULE_NOT_FOUND",
                             hasData |-> FALSE]}
         ELSE regPc' = "credentials" /\ UNCHANGED thrown
    /\ UNCHANGED <<regOptions, email, password, passwordInputs, sent, answers, exceptRegister>>

\* lines 204-206: email and password from the options or the piped line
Credentials ==
    /\ regPc = "credentials"
    /\ email' = regOptions.superEmail
    /\ IF regOptions.pipePasswd
       THEN \E line \in PipedLines : password' = line
       ELSE password' = regOptions.superPassword
    /\ regPc' = "loop"
    /\ UNCHANGED <<regOptions, passwordInputs, sent, answers, thrown, exceptRegister>>

\* line 233: the request is sent with the current email and password
SendRequest(e, p) ==
    /\ sent' = Append(sent, [email |-> e, password |-> p])
    /\ regPc' = "request"

\* lines 207-217: an iteration starts and runs to its first await
Iterate ==
    /\ regPc = "loop"
    /\ IF email = "" THEN regPc' = "email" /\ UNCHANGED sent
       ELSE IF password = "" THEN regPc' = "passwords" /\ UNCHANGED sent
       ELSE SendRequest(email, password)
    /\ UNCHANGED <<regOptions, email, password, passwordInputs, answers, thrown, exceptRegister>>

\* lines 209-216: the email prompt is answered
EmailEntered ==
    /\ regPc = "email"
    /\ \E emailInput \in EmailInputs :
         /\ email' = emailInput
         /\ IF password = "" THEN regPc' = "passwords" /\ UNCHANGED sent
            ELSE SendRequest(emailInput, password)
    /\ UNCHANGED <<regOptions, password, passwordInputs, answers, thrown, exceptRegister>>

\* lines 217-233: the password prompt is answered; a mismatch continues
PasswordsEntered ==
    /\ regPc = "passwords"
    /\ \E passwordInput1, passwordInput2 \in PasswordInputs :
         /\ passwordInputs' = <<passwordInput1, passwordInput2>>
         /\ IF passwordInput1 # passwordInput2
            THEN /\ regPc' = "loop"
                 /\ UNCHANGED <<password, sent>>
            ELSE /\ password' = passwordInput1
                 /\ SendRequest(email, passwordInput1)
    /\ UNCHANGED <<regOptions, email, answers, thrown, exceptRegister>>

\* lines 233-238: the register-super request settles
RequestSettles ==
    /\ regPc = "request"
    /\ \E resp \in ApiResponses :
         /\ answers' = Append(answers, resp)
         /\ IF ~ApiThrows(resp)
            THEN regPc' = "returned" /\ UNCHANGED thrown
            ELSE LET e == ApiError(resp)
                 IN  IF e.code # "VALIDATION_FAILED"
                     THEN regPc' = "thrown" /\ thrown' = {e}
                     ELSE IF e.hasData
                     THEN regPc' = "loop" /\ UNCHANGED thrown
                     ELSE regPc' = "thrown" /\ thrown' = {TypeError}
    /\ UNCHANGED <<regOptions, email, password, passwordInputs, sent, exceptRegister>>

NextRegister ==
    \/ ProbeSettles
    \/ AppStarted
    \/ Credentials
    \/ Iterate
    \/ EmailEntered
    \/ PasswordsEntered
    \/ RequestSettles

SpecRegister == InitRegister /\ [][NextRegister]_vars

----------------------------------------------------------------------------
\* startApp

\* App.instance, the one instance the imported core module exposes
Instance == "App.instance"

\* A cache that is set whether or not onReady succeeded.
CacheAlways(cache, ready) == {Instance}

\* lines 117-118: `app = App.instance` runs only when onReady resolved
CacheAfterReady(cache, ready) == IF ready THEN {Instance} ELSE cache

\* a call of startApp: where it is, how its initialisation went, and what it
\* returned ({} is undefined)
Call(pc, init, ret) == [pc |-> pc, init |-> init, ret |-> ret]

InitApp ==
    /\ app = {}
    /\ calls = [c \in 1..MaxCalls |-> Call("notCalled", "none", {})]
    /\ onReadyCalls = 0
    /\ DepsIdle
    /\ RelIdle
    /\ ScanIdle
    /\ SchemasIdle
    /\ RegisterIdle
    /\ UpdateIdle
    /\ PrereqsIdle

\* line 113: startApp is called; with the cache set it returns the cache,
\* otherwise it imports the core module
StartAppCalled ==
    /\ \E c \in 1..MaxCalls :
         /\ calls[c].pc = "notCalled"
         /\ calls' = [calls EXCEPT ![c] =
                        IF app # {} THEN Call("returned", "none", app)
                        ELSE Call("importing", "none", {})]
    /\ UNCHANGED <<app, onReadyCalls, exceptApp>>

\* line 114: importCore resolves and onReady is called
CoreImported ==
    /\ \E c \in 1..MaxCalls :
         /\ calls[c].pc = "importing"
         /\ calls' = [calls EXCEPT ![c] = Call("onReady", "running", {})]
    /\ onReadyCalls' = onReadyCalls + 1
    /\ UNCHANGED <<app, exceptApp>>

\* line 114: importCore rejects, outside the try: startApp rejects
ImportFails ==
    /\ \E c \in 1..MaxCalls :
         /\ calls[c].pc = "importing"
         /\ calls' = [calls EXCEPT ![c] = Call("thrown", "none", {})]
    /\ UNCHANGED <<app, onReadyCalls, exceptApp>>

\* lines 117-123: onReady settles; resolved, the cache is set and returned;
\* rejected, the error is logged and undefined is returned
OnReadySettles ==
    /\ \E c \in 1..MaxCalls, ready \in BOOLEAN :
         /\ calls[c].pc = "onReady"
         /\ app' = CacheAfterReady(app, ready)
         /\ calls' = [calls EXCEPT ![c] =
                        IF ready THEN Call("returned", "succeeded", app')
                        ELSE Call("returned", "failed", {})]
    /\ UNCHANGED <<onReadyCalls, exceptApp>>

NextApp ==
    \/ StartAppCalled
    \/ CoreImported
    \/ ImportFails
    \/ OnReadySettles

SpecApp == InitApp /\ [][NextApp]_vars

----------------------------------------------------------------------------
\* updateRepo

\* the tags and branches the working copy can be at
Tags == {"v1.0.0", "v2.0.0"}

\* The working copies updateRepo can be called on: node_modules is absent or
\* holds the dependencies installed for the commit checked out.
Repos ==
    {r \in [fetched : {FALSE}, dirty : BOOLEAN, head : Tags,
            nodeModules : {"absent"} \cup Tags] :
        r.nodeModules \in {"absent", r.head}}

\* the steps in the order of lines 143-148
StepAfter(step) ==
    CASE step = "fetch" -> "reset"
      [] step = "reset" -> "checkout"
      [] step = "checkout" -> "rm"
      [] step = "rm" -> "install"
      [] step = "install" -> "done"

\* A step whose failure does not stop the operation.
ContinueAfter(step, ok) == StepAfter(step)

\* each step is awaited: a rejection propagates out of updateRepo
Continue(step, ok) == IF ok THEN StepAfter(step) ELSE "failed"

\* what a step that succeeds does to the working copy
Effect(step, r, o) ==
    CASE step = "fetch" -> [r EXCEPT !.fetched = TRUE]
      [] step = "reset" -> [r EXCEPT !.dirty = FALSE]
      [] step = "checkout" -> [r EXCEPT !.head = o.tag]
      [] step = "rm" -> [r EXCEPT !.nodeModules = "absent"]
      [] step = "install" -> [r EXCEPT !.nodeModules = r.head]

\* the outcomes a step can have: fs.rm without `force` rejects when there is
\* no node_modules, every step can fail otherwise
Outcomes(step, r) ==
    IF step = "rm" /\ r.nodeModules = "absent" THEN {FALSE} ELSE BOOLEAN

\* the step the operation is at settles
Run(step) ==
    /\ updPc = step
    /\ \E ok \in Outcomes(step, repo) :
         /\ steps' = Append(steps, [step |-> step, ok |-> ok])
         /\ repo' = IF ok THEN Effect(step, repo, updOptions) ELSE repo
         /\ updPc' = Continue(step, ok)

InitUpdate ==
    /\ updPc = "fetch"
    /\ updOptions \in [tag : Tags]
    /\ repo \in Repos
    /\ repoBefore = repo
    /\ steps = <<>>
    /\ DepsIdle
    /\ RelIdle
    /\ ScanIdle
    /\ SchemasIdle
    /\ RegisterIdle
    /\ AppIdle
    /\ PrereqsIdle

\* line 143: git fetch --all --tags
Fetch ==
    /\ Run("fetch")
    /\ UNCHANGED <<updOptions, repoBefore, exceptUpd>>

\* line 144: git reset --hard
Reset ==
    /\ Run("reset")
    /\ UNCHANGED <<updOptions, repoBefore, exceptUpd>>

\* line 145: git checkout ${options.tag}
Checkout ==
    /\ Run("checkout")
    /\ UNCHANGED <<updOptions, repoBefore, exceptUpd>>

\* line 146: fs.rm of node_modules
RemoveModules ==
    /\ Run("rm")
    /\ UNCHANGED <<updOptions, repoBefore, exceptUpd>>

\* line 148: npm ci
Install ==
    /\ Run("install")
    /\ UNCHANGED <<updOptions, repoBefore, exceptUpd>>

NextUpdate ==
    \/ Fetch
    \/ Reset
    \/ Checkout
    \/ RemoveModules
    \/ Install

SpecUpdate == InitUpdate /\ [][NextUpdate]_vars

----------------------------------------------------------------------------
\* checkPrerequisites

\* the prerequisites a package.json can declare, with the range required
Prerequisites ==
    {[name |-> "node", version |-> "18.x"],
     [name |-> "git", version |-> "2.x"],
     [name |-> "npm", version |-> "9.x"]}

\* Object.entries(prereqs): at most MaxPrereqs entries with distinct names
PrereqLists ==
    {ps \in UNION {[1..n -> Prerequisites] : n \in 0..MaxPrereqs} :
        \A i, j \in 1..Len(ps) : ps[i].name = ps[j].name => i = j}

\* What `<name> --version` prints: a version, followed or not by a character
\* that is not a digit.
Stdouts ==
    [version : {"18.20.0", "2.40.1", "8.19.4"}, followed : BOOLEAN]

\* data.match(/(\d+\.\d+\.\d+)\D/) and match[1]: {} is null
InstalledVersion(data) == IF data.followed THEN {data.version} ELSE {}

\* semver.satisfies(installedVersion, version), null satisfying nothing
Satisfies(installed, range) ==
    \E v \in installed :
        \/ v = "18.20.0" /\ range = "18.x"
        \/ v = "2.40.1" /\ range = "2.x"

\* the settled callback of a prerequisite: exec rejected, or printed data
Missing(p) == [status |-> "rejected", name |-> p.name, reason |-> "missing"]
Checked(p, data) ==
    IF Satisfies(InstalledVersion(data), p.version)
    THEN [status |-> "fulfilled", name |-> p.name, reason |-> ""]
    ELSE [status |-> "rejected", name |-> p.name, reason |-> "unsatisfied"]

\* A join that ends at the first rejection, as Promise.all does.
FirstRejection(cs) ==
    \/ \A i \in 1..Len(cs) : cs[i].status # "pending"
    \/ \E i \in 1..Len(cs) : cs[i].status = "rejected"

\* Promise.allSettled resolves when every callback has settled
AllSettled(cs) == \A i \in 1..Len(cs) : cs[i].status # "pending"

\* .filter(p => p.status === 'rejected').map(p => p.reason)
FailedPrereqs(cs) == SelectSeq(cs, LAMBDA c : c.status = "rejected")

InitPrereqs ==
    /\ prePc = "loading"
    /\ preOptions \in [ignorePrereqs : BOOLEAN]
    /\ prereqs = <<>>
    /\ checks = <<>>
    /\ preError = {}
    /\ DepsIdle
    /\ RelIdle
    /\ ScanIdle
    /\ SchemasIdle
    /\ RegisterIdle
    /\ AppIdle
    /\ UpdateIdle

\* line 29: loadPackage resolves; one check per declared prerequisite starts
PackageLoaded ==
    /\ prePc = "loading"
    /\ \E ps \in PrereqLists :
         /\ prereqs' = ps
         /\ checks' = [i \in 1..Len(ps) |->
                         [status |-> "pending", name |-> ps[i].name, reason |-> ""]]
    /\ prePc' = "checking"
    /\ UNCHANGED <<preOptions, preError, exceptPre>>

\* line 29: loadPackage rejects and checkPrerequisites with it
PackageNotLoaded ==
    /\ prePc = "loading"
    /\ prePc' = "thrown"
    /\ preError' = {[kind |-> "load", failed |-> <<>>]}
    /\ UNCHANGED <<preOptions, prereqs, checks, exceptPre>>

\* lines 31-35: `<name> --version` fails
ExecFails ==
    /\ prePc = "checking"
    /\ \E i \in 1..Len(checks) :
         /\ checks[i].status = "pending"
         /\ checks' = [checks EXCEPT ![i] = Missing(prereqs[i])]
    /\ UNCHANGED <<prePc, preOptions, prereqs, preError, exceptPre>>

\* lines 31-41: `<name> --version` prints data and the version is compared
ExecPrints ==
    /\ prePc = "checking"
    /\ \E i \in 1..Len(checks), data \in Stdouts :
         /\ checks[i].status = "pending"
         /\ checks' = [checks EXCEPT ![i] = Checked(prereqs[i], data)]
    /\ UNCHANGED <<prePc, preOptions, prereqs, preError, exceptPre>>

\* lines 42-52: the checks are joined; the failures are thrown, or logged
\* when ignorePrereqs is set
Join ==
    /\ prePc = "checking"
    /\ AllSettled(checks)
    /\ LET failedPrereqs == FailedPrereqs(checks)
       IN  IF failedPrereqs = <<>>
           THEN prePc' = "returned" /\ UNCHANGED preError
           ELSE /\ preError' = {[kind |-> "prerequisites", failed |-> failedPrereqs]}
                /\ prePc' = IF preOptions.ignorePrereqs THEN "returned" ELSE "thrown"
    /\ UNCHANGED <<preOptions, prereqs, checks, exceptPre>>

NextPrereqs ==
    \/ PackageLoaded
    \/ PackageNotLoaded
    \/ ExecFails
    \/ ExecPrints
    \/ Join

SpecPrereqs == InitPrereqs /\ [][NextPrereqs]_vars

----------------------------------------------------------------------------
\* Claims about getAppDependencies

Returned == depPc = "returned"

\* the specifiers the plugins read declare for dependency k in one field
DeclaredRuntime(k) ==
    {e.v : e \in {x \in UNION {Range(m.dependencies) : m \in read} : x.k = k}}
DeclaredDev(k) ==
    {e.v : e \in {x \in UNION {Range(m.devDependencies) : m \in read} : x.k = k}}
RuntimeNames == {m.dependencies[1].k : m \in {x \in read : x.dependencies # <<>>}}
DevNames == {m.devDependencies[1].k : m \in {x \in read : x.devDependencies # <<>>}}
DiscoveredNames == {m.name : m \in read}

\* the enumerations of a finite set: the orders in which the reads may complete
Orders(S) ==
    {f \in [1..Cardinality(S) -> S] : \A i, j \in 1..Cardinality(S) : i # j => f[i] # f[j]}

RECURSIVE MergeInOrder(_, _)
MergeInOrder(d, order) ==
    IF order = <<>> THEN d ELSE MergeInOrder(MergeManifest(d, Head(order)), Tail(order))

\* what getAppDependencies returns when the reads complete in this order
Aggregate(order) == Finish(MergeInOrder(EmptyDeps, order))

\* C1 (as claimed): when getAppDependencies returns, no name of a discovered
\* plugin (no key of adapt) is a key of all, and none is a key of dev.
C1_NoPluginNameInAllOrDev ==
    Returned =>
        \A i \in 1..Len(deps.adapt) :
            /\ ~ObjHas(deps.all, deps.adapt[i].k)
            /\ ~ObjHas(deps.dev, deps.adapt[i].k)

\* C2 (as claimed): the maps returned are those of every completion order of
\* the reads, for every set of manifests, name collisions included.
C2_EveryOrderSameResult ==
    Returned => \A order \in Orders(read) : Aggregate(order) = deps

\* no two discovered directories carry the same plugin name
NamesDistinct == \A m1, m2 \in read : m1.name = m2.name => m1 = m2

\* C2 (amended): every completion order of the reads yields the same all and
\* dev maps, and the same adapt map when the manifests carry pairwise distinct
\* names (on a name collision adapt holds the version read last).
C2_OrderIndependentUpToCollision ==
    Returned =>
        \A order \in Orders(read) :
            /\ Aggregate(order).all = deps.all
            /\ Aggregate(order).dev = deps.dev
            /\ NamesDistinct => Aggregate(order).adapt = deps.adapt

\* two plugins with distinct names were read and both declared the same
\* dependency with different specifiers
C2_Witness ==
    /\ Returned /\ NamesDistinct /\ Cardinality(read) >= 2
    /\ \E i \in 1..Len(deps.all) : Len(deps.all[i].v.list) = 2

\* the strings of xs are pairwise distinct and ascend by code units
StrictlyAscending(xs) ==
    \A i \in 1..Len(xs) : \A j \in 1..Len(xs) :
        i < j => SeqLess(Codes(xs[i]), Codes(xs[j]))

\* the shape rule for one property e of all or dev, given the set of
\* specifiers declared for its key
ShapeOk(e, declared) ==
    /\ declared # {}
    /\ (e.v.type = "string") <=> (Cardinality(declared) = 1)
    /\ e.v.type = "string" => declared = {e.v.str}
    /\ e.v.type # "string" =>
          /\ e.v.type = "array"
          /\ Range(e.v.list) = declared
          /\ StrictlyAscending(e.v.list)

\* C3: in the returned all and dev maps a key maps to a bare string exactly
\* when one distinct specifier was declared for it across all plugins, and
\* otherwise to the list of its distinct declared specifiers, without
\* duplicates, in ascending lexicographic order.
C3_ScalarOrSortedList ==
    Returned =>
        /\ \A i \in 1..Len(deps.all) : ShapeOk(deps.all[i], DeclaredRuntime(deps.all[i].k))
        /\ \A i \in 1..Len(deps.dev) : ShapeOk(deps.dev[i], DeclaredDev(deps.dev[i].k))

\* two plugins declared one runtime dependency with the same specifier and
\* one development dependency with two specifiers
C3_Witness ==
    /\ Returned /\ Cardinality(read) >= 2
    /\ \E i \in 1..Len(deps.all) :
          /\ deps.all[i].v.type = "string"
          /\ Cardinality({m \in read : m.dependencies # <<>>
                                       /\ m.dependencies[1].k = deps.all[i].k}) = 2
    /\ \E i \in 1..Len(deps.dev) :
          deps.dev[i].v.type = "array" /\ Len(deps.dev[i].v.list) = 2

\* no dependency name is declared by two plugins
DisjointDeclarations ==
    \A m1, m2 \in read :
        m1 # m2 =>
            {e.k : e \in Range(m1.dependencies) \cup Range(m1.devDependencies)}
            \cap {e.k : e \in Range(m2.dependencies) \cup Range(m2.devDependencies)} = {}

\* a map as the set of its properties, each a bare specifier
Scalars(o) == {<<o[i].k, o[i].v.str>> : i \in 1..Len(o)}
AllScalar(o) == \A i \in 1..Len(o) : o[i].v.type = "string"
UnionRuntime == UNION {{<<e.k, e.v>> : e \in Range(m.dependencies)} : m \in read}
UnionDev == UNION {{<<e.k, e.v>> : e \in Range(m.devDependencies)} : m \in read}

\* C4 (as claimed): for manifests with pairwise disjoint declarations, all is
\* the plain union of the declared runtime dependencies and dev the plain
\* union of the declared development dependencies.
C4_PlainUnion ==
    (Returned /\ DisjointDeclarations) =>
        /\ AllScalar(deps.all) /\ Scalars(deps.all) = UnionRuntime
        /\ AllScalar(deps.dev) /\ Scalars(deps.dev) = UnionDev

\* C4 (amended): for manifests with pairwise disjoint declarations, all is the
\* plain union of the declared runtime dependencies without those named like a
\* discovered plugin, and dev is the plain union of the declared development
\* dependencies.
C4_PlainUnionWithoutPlugins ==
    (Returned /\ DisjointDeclarations) =>
        /\ AllScalar(deps.all)
        /\ Scalars(deps.all) = {d \in UnionRuntime : d[1] \notin DiscoveredNames}
        /\ AllScalar(deps.dev) /\ Scalars(deps.dev) = UnionDev

\* two plugins with disjoint declarations, one of them depending on the other
\* at run time, and a development dependency declared
C4_Witness ==
    /\ Returned /\ DisjointDeclarations /\ Cardinality(read) = 2
    /\ Cardinality(RuntimeNames) = 2
    /\ RuntimeNames \cap DiscoveredNames # {}
    /\ deps.all # <<>> /\ deps.dev # <<>>

----------------------------------------------------------------------------
\* Claims about getReleases

Done == relPc = "done"
CurrentVersion == options.currentVersion

\* the two versions compare as semantic versions and the tag is greater
TagIsGreater(r) ==
    /\ SemverValid(CurrentVersion) # <<>>
    /\ SemverValid(r.tag_name) # <<>>
    /\ SemverGt(r.tag_name, CurrentVersion)

\* the local commit date is known and the candidate's date is after it
DateIsLater(r) == \E t \in currentVersionDate : r.date > t

\* the candidate is held back by the exclusion filter
HeldBack(r) ==
    \/ r.tag_name = CurrentVersion
    \/ r.prerelease /\ ~options.includePrereleases
    \/ r.draft /\ ~options.includeDrafts

\* C5: no returned candidate has the tag currentVersion, none is a prerelease
\* unless includePrereleases is set, none is a draft unless includeDrafts is
\* set, tagged releases and branches alike, whatever the comparisons say.
C5_ExclusionsNeverReturned ==
    Done =>
        \A i \in 1..Len(result) :
            /\ result[i].tag_name # CurrentVersion
            /\ result[i].prerelease => options.includePrereleases
            /\ result[i].draft => options.includeDrafts

\* a branch named like the current version and a draft were fetched and held
\* back although their dates are later than the local commit, and another
\* candidate was returned
C5_Witness ==
    /\ Done /\ result # <<>>
    /\ \E i \in 1..Len(releases) :
          /\ releases[i].branch /\ releases[i].tag_name = CurrentVersion
          /\ DateIsLater(releases[i])
    /\ \E i \in 1..Len(releases) :
          /\ releases[i].draft /\ ~options.includeDrafts
          /\ DateIsLater(releases[i])

\* C6: a candidate that passes the exclusion filter is returned if and only
\* if no currentVersion is given, or both versions are valid and the tag is
\* strictly greater, or its date is strictly after the local commit date; with
\* an invalid version on either side the date alone decides, and with the
\* local commit date unknown the date clause is not satisfied.
C6_KeptIffNewer ==
    Done =>
        \A i \in 1..Len(releases) :
            LET r == releases[i]
                kept == r \in Range(result)
            IN  ~HeldBack(r) =>
                   /\ kept <=> (CurrentVersion = "" \/ TagIsGreater(r) \/ DateIsLater(r))
                   /\ (/\ CurrentVersion # ""
                       /\ (SemverValid(CurrentVersion) = <<>> \/ SemverValid(r.tag_name) = <<>>))
                         => (kept <=> DateIsLater(r))
                   /\ (CurrentVersion # "" /\ currentVersionDate = {})
                         => (kept <=> TagIsGreater(r))

\* a release with a lower semantic version than the current one and a later
\* date than the local commit was returned
C6_Witness ==
    /\ Done
    /\ \E i \in 1..Len(result) :
          /\ SemverValid(CurrentVersion) # <<>>
          /\ SemverValid(result[i].tag_name) # <<>>
          /\ SemverGt(CurrentVersion, result[i].tag_name)
          /\ DateIsLater(result[i])

\* C7: the returned sequence is ordered by date descending: for i < j the
\* date of candidate i is not earlier than the date of candidate j.
C7_DateDescending ==
    Done =>
        \A i \in 1..Len(result) : \A j \in 1..Len(result) :
            i < j => result[i].date >= result[j].date

\* three candidates were returned, a tagged release and branches among them,
\* two with equal dates and one with another date, fetched in another order
C7_Witness ==
    /\ Done /\ Len(result) = 3
    /\ \E i, j \in 1..3 : result[i].branch /\ ~result[j].branch
    /\ result[1].date > result[3].date
    /\ result # SelectSeq(releases, LAMBDA r : r \in Range(result))

\* branch candidate i has a later date than every other fetched candidate
NewestBranch(i) ==
    /\ releases[i].branch
    /\ \A j \in 1..Len(releases) : j # i => releases[j].date < releases[i].date

\* C8 (as claimed): with includeBranches set, a branch whose head-commit date
\* is later than the date of every other fetched candidate is the first
\* element of the result, for every currentVersion and local commit date.
C8_NewestBranchFirst ==
    (Done /\ options.includeBranches) =>
        \A i \in 1..Len(releases) :
            NewestBranch(i) => (result # <<>> /\ result[1] = releases[i])

\* C8 (amended): with includeBranches set, a branch whose head-commit date is
\* later than the date of every other fetched candidate is the first element
\* of the result when its name is not currentVersion and no currentVersion is
\* given, or its name is a semantic version greater than currentVersion, or
\* its date is after the known local commit date; otherwise it is not in the
\* result.
C8_NewestBranchFirstIfKept ==
    (Done /\ options.includeBranches) =>
        \A i \in 1..Len(releases) :
            NewestBranch(i) =>
                IF /\ releases[i].tag_name # CurrentVersion
                   /\ (CurrentVersion = "" \/ TagIsGreater(releases[i])
                       \/ DateIsLater(releases[i]))
                THEN result # <<>> /\ result[1] = releases[i]
                ELSE releases[i] \notin Range(result)

\* the newest candidate is a branch, it was returned first, and an older
\* tagged release was returned after it
C8_Witness ==
    /\ Done /\ options.includeBranches /\ Len(result) >= 2
    /\ \E i \in 1..Len(releases) : NewestBranch(i) /\ result[1] = releases[i]
    /\ \E j \in 2..Len(result) : ~result[j].branch

\* C9: getReleases fails and returns no candidate list whenever a remote
\* request fails (release list, branch list or a commit lookup; a status that
\* is no success, or a transport failure), and it fails for no other reason:
\* a failed local commit-date lookup leaves the date unknown and goes on.
C9_FailsIffRemoteRequestFails ==
    /\ requestFailed => (relPc = "failed" /\ result = <<>>)
    /\ relPc = "failed" => requestFailed

\* the local lookup had failed, one commit lookup had pushed its candidate,
\* and then another commit lookup failed
C9_Witness ==
    /\ relPc = "failed" /\ requestFailed
    /\ currentVersionDate = {}
    /\ \E i \in 1..Len(releases) : releases[i].branch

\* C10 (as claimed): the result is the same for every order in which the
\* commit lookups complete, the order of candidates with equal dates included.
C10_SameResultEveryLookupOrder ==
    Done =>
        LET tagged == SelectSeq(releases, LAMBDA r : ~r.branch)
            branches == {releases[i] : i \in {j \in 1..Len(releases) : releases[j].branch}}
        IN  \A order \in Orders(branches) :
                Select(tagged \o order, options, currentVersionDate) = result

----------------------------------------------------------------------------
\* Claims about the tree scanners

Scanned == scanPc = "returned"

\* the files of the tree whose full path ends with the scanner's suffix
Matches == {e \in {x \in tree : ~x.dir} : EndsWith(FullPath(e.path), Suffix(scanner))}

\* how many elements of the returned array equal r
Reports(r) == Cardinality({i \in 1..Len(files) : files[i] = r})

\* C11 as stated: once all sub-scans have joined, each scanner returns
\* exactly the matching files under the root: the path of every file whose
\* path ends with the suffix is in the returned array exactly once, and the
\* array holds nothing else.
C11_EveryMatchReportedOnce ==
    Scanned =>
        /\ \A e \in Matches : Reports(e.path) = 1
        /\ \A i \in 1..Len(files) : \E e \in Matches : files[i] = e.path

\* what the scanner returns for the matching file at p: the schema scanner
\* the file, the plugin scanner the directory that holds the file
Expected(p) == IF scanner = "schemas" THEN p ELSE SubSeq(p, 1, Len(p) - 1)

\* C11 (amended): once all sub-scans have joined, whatever the tree and the
\* interleaving, the returned array has one element per matching file and
\* nothing else: the schema scanner returns the path of each matching file
\* exactly once, the plugin scanner returns, once for each matching file,
\* the directory that holds it.
C11_OneReportPerMatch ==
    Scanned =>
        /\ Len(files) = Cardinality(Matches)
        /\ \A e \in Matches :
             Reports(Expected(e.path)) =
                 Cardinality({g \in Matches : Expected(g.path) = Expected(e.path)})
        /\ \A i \in 1..Len(files) : \E e \in Matches : files[i] = Expected(e.path)
        /\ scanner = "schemas" => C11_EveryMatchReportedOnce

\* the plugin scanner has returned a nested directory twice, for the two
\* matching files in it
C11_Witness ==
    /\ Scanned
    /\ scanner = "plugins"
    /\ Len(files) = 2
    /\ files[1] = files[2]
    /\ Len(files[1]) = 1

----------------------------------------------------------------------------
\* Claims about getSchemas

\* some callback of getSchemas could not load its package or its schema
SomeLoadFailed == \E i \in 1..Len(schCalls) : schCalls[i].phase = "failed"

\* a step of getAppDependencies in which a callback settles without a
\* manifest having been read
ManifestNotLoaded == pending' < pending /\ read' = read

\* C12: a manifest or schema file that cannot be loaded makes the whole call
\* fail, in getSchemas and in getAppDependencies alike: the call ends with an
\* error, stays failed, and returns only when every entry found was loaded,
\* so no mapping built from the remaining entries reaches the caller.
C12_LoadFailureFailsWholeCall ==
    /\ [](SomeLoadFailed => schPc = "failed")
    /\ [](schPc = "returned" =>
            \A i \in 1..Len(schCalls) : schCalls[i].phase = "done")
    /\ [][ManifestNotLoaded => depPc' = "failed"]_vars
    /\ [][(depPc = "failed" => depPc' = "failed")
          /\ (schPc = "failed" => schPc' = "failed")]_vars

\* getSchemas has failed on one schema file after the entry of another was
\* already set in schemas.config
C12_Witness ==
    /\ schPc = "failed"
    /\ Len(schemas.config) = 1
    /\ SomeLoadFailed

\* C13: every successful result of getSchemas has the synthetic super-user
\* entry, whatever was discovered: email and password are string fields
\* listed as required, and there is a confirmation field.
C13_SuperUserSchemaAlways ==
    schPc = "returned" =>
        /\ ObjHas(schemas.user, "properties")
        /\ ObjHas(ObjGet(schemas.user, "properties"), "superUser")
        /\ LET su == ObjGet(ObjGet(schemas.user, "properties"), "superUser")
           IN  /\ \A f \in {"email", "password"} :
                    /\ ObjHas(su.properties, f)
                    /\ ObjGet(su.properties, f).type = "string"
                    /\ f \in Range(su.required)
               /\ ObjHas(su.properties, "confirmPassword")

\* getSchemas has returned with no plugin schema discovered
C13_Witness ==
    /\ schPc = "returned"
    /\ schCalls = <<>>
    /\ schemas.config = <<>>
    /\ schemas.user # <<>>

----------------------------------------------------------------------------
\* Claims about the names getReleases returns

\* the suffix of a candidate's flags: draft before prerelease
FlagSuffix(r) ==
    IF r.draft THEN " (draft)" ELSE IF r.prerelease THEN " (prerelease)" ELSE ""

\* the name the remote host sent for a returned candidate: the name of the
\* release (every release of the model is named "Release"), the name of the
\* branch
Received(r) == IF r.branch THEN r.tag_name ELSE "Release"

\* C14 as stated: the display name of every returned candidate is the name
\* received from the remote host, with " (draft)" appended for a draft,
\* otherwise " (prerelease)" for a prerelease, otherwise unchanged.
C14_NameAsReceived ==
    Done => \A i \in 1..Len(result) :
                result[i].name = Received(result[i]) \o FlagSuffix(result[i])

\* a step in which the commit lookup of a branch pushes its candidate
BranchPushed == relPc = "lookups" /\ Len(releases') = Len(releases) + 1

\* C14 (amended): a returned release has the name received from the remote
\* host with " (draft)" appended if it is a draft, otherwise " (prerelease)"
\* if it is a prerelease, otherwise unchanged; a returned branch candidate
\* has the branch name followed by " (branch)" as its name; and every branch
\* candidate is pushed with the branch name as tag_name, branch true and
\* the author date of the head commit as its date.
C14_AnnotatedNames ==
    /\ [](Done => \A i \in 1..Len(result) :
            LET r == result[i]
            IN  /\ r.name = (IF r.branch THEN r.tag_name \o " (branch)"
                             ELSE "Release" \o FlagSuffix(r))
                /\ r.date = ParseDate(r.published_at))
    /\ [][BranchPushed =>
            \E b \in lookups \ lookups' :
                LET c == releases'[Len(releases')]
                IN  /\ c.tag_name = b.name
                    /\ c.branch
                    /\ c.published_at = b.date]_vars

\* a release that is both a draft and a prerelease is returned together
\* with a branch candidate
C14_Witness ==
    /\ Done
    /\ \E i, j \in 1..Len(result) :
         /\ result[i].draft /\ result[i].prerelease
         /\ result[j].branch

----------------------------------------------------------------------------
\* Claims about registerSuperUser

\* registerSuperUser has ended, by returning or by rejecting
RegisterEnded == regPc \in {"returned", "thrown"}

\* the response to the last register-super request
LastAnswer == answers[Len(answers)]

\* the last password prompt was answered with two different passwords
Mismatch == passwordInputs # <<>> /\ passwordInputs[1] # passwordInputs[2]

\* C15: registerSuperUser returns normally only after a register-super
\* request has succeeded; after a mismatch of the two prompted passwords no
\* request is in flight and the loop has restarted; after a VALIDATION_FAILED response
\* the loop restarts, so the operation has not ended; after any other error
\* of the request the operation has ended with that error.
C15_LoopsOnlyOnValidationError ==
    /\ regPc = "returned" => answers # <<>> /\ ~ApiThrows(LastAnswer)
    /\ Mismatch => /\ regPc \in {"loop", "email", "passwords"}
                   /\ password = ""
                   /\ Len(sent) = Len(answers)
    /\ (answers # <<>> /\ LastAnswer.code = "VALIDATION_FAILED") => ~RegisterEnded
    /\ (answers # <<>> /\ ApiThrows(LastAnswer)
            /\ LastAnswer.code # "VALIDATION_FAILED") =>
          /\ regPc = "thrown"
          /\ \E e \in thrown : e.code = LastAnswer.code

\* C16: an email and a password that were sent are never cleared or asked
\* for again, so every request carries the email and password of the first
\* one; and while every response has been VALIDATION_FAILED the operation
\* has not ended.
C16_SameCredentialsForever ==
    /\ \A i \in 1..Len(sent) :
         /\ sent[i].email # "" => sent[i].email = email
         /\ sent[i].password # "" => sent[i].password = password
    /\ (answers # <<>> /\ \A i \in 1..Len(answers) :
                              answers[i].code = "VALIDATION_FAILED")
          => ~RegisterEnded

----------------------------------------------------------------------------
\* Claims about startApp

\* a step in which a call of startApp is made while the cache is set
CalledWithCache ==
    /\ app # {}
    /\ \E c \in 1..MaxCalls : calls[c].pc = "notCalled" /\ calls'[c].pc # "notCalled"

\* a step in which the onReady of call c rejects
InitFails(c) == calls[c].pc = "onReady" /\ calls'[c].init = "failed"

\* C17: the cache is set only once some onReady has resolved; a call made
\* with the cache set returns the cached instance at once and onReady is
\* not called again; a failed initialisation leaves the cache as it was
\* (empty, unless an overlapping call has set it) and its call returns no
\* instance; every call that found the cache empty runs
\* the initialisation, also when another call has set the cache meanwhile.
C17_CacheSetAfterReady ==
    /\ [](app # {} => \E c \in 1..MaxCalls : calls[c].init = "succeeded")
    /\ [][CalledWithCache =>
            /\ onReadyCalls' = onReadyCalls
            /\ \E c \in 1..MaxCalls :
                 /\ calls[c].pc = "notCalled"
                 /\ calls'[c] = Call("returned", "none", app)]_vars
    /\ [][\A c \in 1..MaxCalls : InitFails(c) =>
            /\ app' = app
            /\ calls'[c].pc = "returned"
            /\ calls'[c].ret = {}]_vars
    /\ [](\A c \in 1..MaxCalls :
            (calls[c].pc = "returned" /\ calls[c].init = "succeeded")
                => calls[c].ret = {Instance} /\ app = {Instance})
    /\ [][\A c \in 1..MaxCalls :
            (calls[c].pc = "importing" /\ calls'[c].pc = "onReady")
                => onReadyCalls' = onReadyCalls + 1]_vars

\* two overlapping calls both ran the initialisation, one of them failed
\* and the cache is set; a third call returned the cached instance
C17_Witness ==
    /\ app = {Instance}
    /\ onReadyCalls = 2
    /\ \E c1, c2, c3 \in 1..MaxCalls :
         /\ calls[c1] = Call("returned", "succeeded", {Instance})
         /\ calls[c2] = Call("returned", "failed", {})
         /\ calls[c3] = Call("returned", "none", {Instance})

----------------------------------------------------------------------------
\* Claims about updateRepo

\* the order the claim gives
StepOrder == <<"fetch", "reset", "checkout", "rm", "install">>

\* step s has run and succeeded
Succeeded(s) == \E i \in 1..Len(steps) : steps[i].step = s /\ steps[i].ok

\* C18: updateRepo runs fetch, hard reset, checkout of the requested tag,
\* removal of node_modules and install in that order, each only after the
\* one before succeeded; a failed step is the last step run; node_modules is
\* touched only after a successful checkout of the tag; and after a failed
\* install the working copy is at the tag without node_modules.
C18_StepsInOrder ==
    /\ Len(steps) <= Len(StepOrder)
    /\ \A i \in 1..Len(steps) :
         /\ steps[i].step = StepOrder[i]
         /\ i > 1 => steps[i - 1].ok
    /\ updPc = "failed" <=> (steps # <<>> /\ ~steps[Len(steps)].ok)
    /\ updPc = "done" <=> (Len(steps) = Len(StepOrder) /\ steps[Len(steps)].ok)
    /\ repo.nodeModules # repoBefore.nodeModules =>
         /\ Succeeded("checkout")
         /\ repo.head = updOptions.tag
    /\ (steps # <<>> /\ steps[Len(steps)] = [step |-> "install", ok |-> FALSE]) =>
         /\ repo.head = updOptions.tag
         /\ repo.nodeModules = "absent"

\* the install failed after node_modules of another tag was removed
C18_Witness ==
    /\ updPc = "failed"
    /\ Len(steps) = 5
    /\ repoBefore.nodeModules # "absent"
    /\ repoBefore.head # updOptions.tag
    /\ repo.nodeModules = "absent"

----------------------------------------------------------------------------
\* Claims about checkPrerequisites

\* the declared prerequisites were loaded and the operation has ended
PrereqsEnded ==
    /\ prePc \in {"returned", "thrown"}
    /\ \A e \in preError : e.kind = "prerequisites"

\* the names of the prerequisites whose check failed, in declaration order
FailedNames ==
    LET failed == SelectSeq(checks, LAMBDA c : c.status = "rejected")
    IN  [i \in 1..Len(failed) |-> failed[i].name]

\* C19: when checkPrerequisites ends, every declared prerequisite has been
\* checked, whether or not others failed; it throws if and only if some
\* check failed and ignorePrereqs is not set, the error listing every failed
\* prerequisite; it returns normally if and only if every check passed or
\* ignorePrereqs is set.
C19_FailuresCollected ==
    PrereqsEnded =>
        /\ Len(checks) = Len(prereqs)
        /\ \A i \in 1..Len(checks) :
             checks[i].name = prereqs[i].name /\ checks[i].status # "pending"
        /\ prePc = "thrown" <=> (FailedNames # <<>> /\ ~preOptions.ignorePrereqs)
        /\ prePc = "returned" <=> (FailedNames = <<>> \/ preOptions.ignorePrereqs)
        /\ prePc = "thrown" =>
             \E e \in preError :
                 [i \in 1..Len(e.failed) |-> e.failed[i].name] = FailedNames
        /\ Cardinality(preError) <= 1

\* the first declared prerequisite is missing, the second has the wrong
\* version, and one error naming both was thrown
C19_Witness ==
    /\ prePc = "thrown"
    /\ Len(FailedNames) = 2
    /\ checks[1].reason = "missing"
    /\ checks[2].reason = "unsatisfied"
    /\ \E e \in preError : Len(e.failed) = 2

====
